---- MODULE Spec2Model ----
(***************************************************************************)
(* Model of the byte_buffer codec of rsteganography:                       *)
(*   src/src/byte_buffer/serializer.rs   (serde Serializer -> Vec<u8>)     *)
(*   src/src/byte_buffer/deserializer.rs (serde Deserializer over &[u8])   *)
(*                                                                         *)
(* Representation of values.  A value is a record                          *)
(*   [kind, b, n, chars, elems]                                            *)
(*   bool            b     = the boolean                                   *)
(*   u8..u64         chars = the number in base 256, most significant      *)
(*                           digit first (1/2/4/8 digits)                  *)
(*   i8..i64         n     = 1 when negative, chars = magnitude digits     *)
(*   f32/f64         chars = digits of the bit pattern (to_bits)           *)
(*   char            n     = the Unicode scalar value                      *)
(*   str             chars = the code points of the string                 *)
(*   bytes           chars = the bytes                                     *)
(*   option          elems = <<>> (None) or <<v>> (Some(v))                *)
(*   seq, map        elems = the elements (a map: k1, v1, k2, v2, ...),    *)
(*                   b     = TRUE when the length is known up front        *)
(*   tuple, tuple_struct, struct, newtype_struct   elems = the fields      *)
(*   *_variant       n     = variant_index, elems = the fields             *)
(* Integers wider than 31 bits do not fit a model integer, hence digits.   *)
(***************************************************************************)
EXTENDS Integers, Sequences, FiniteSets, TLC

VARIABLES EOT, endian, pc, value, shape, output, buffer, result,
          composite, ser, appended

\* the open composite encoder: which serialize_* call opened it, its buffer,
\* and the last append made to it
cvars == <<composite, ser, appended>>

vars == <<EOT, endian, pc, value, shape, output, buffer, result, composite, ser, appended>>

(***************************************************************************)
(* Bounds of the model.                                                    *)
(***************************************************************************)
\* longest arbitrary byte slice handed to the decoder
MaxSliceLen == 3
\* longest patterned slice (lead byte, fill bytes) handed to the decoder
MaxPatternLen == 9
\* most elements / fields of an encoded composite
MaxElems == 3
\* most characters of an encoded string
MaxStrLen == 2
\* most appends to one open composite encoder
MaxAppends == 3

\* byte values the slices are built from: option/bool tags 0 and 1, the
\* candidate sentinels, ASCII 'A', a UTF-8 continuation byte, a 2-byte and a
\* 3-byte UTF-8 lead byte
ByteSample == {0, 1, 4, 65, 128, 195, 226}

\* the sentinel is defined outside the two source files (super::EOT, a u8);
\* every candidate value is explored
EOTCandidates == {4, 65}

(***************************************************************************)
(* Sequence helpers.                                                       *)
(***************************************************************************)
Reverse(s) == [i \in 1..Len(s) |-> s[Len(s) + 1 - i]]

Front(s) == SubSeq(s, 1, Len(s) - 1)

Last(s) == s[Len(s)]

\* &s[k..] for k <= len (0-based start k)
SliceFrom(s, k) == SubSeq(s, k + 1, Len(s))

Range(s) == {s[i] : i \in 1..Len(s)}

SeqsUpTo(S, n) == UNION {[1..k -> S] : k \in 0..n}

(***************************************************************************)
(* Fixed-width integers as base-256 digits.                                *)
(***************************************************************************)
RECURSIVE ToDigits(_, _)
\* the W digits (most significant first) of a model integer n >= 0
ToDigits(n, W) == IF W = 0 THEN <<>> ELSE Append(ToDigits(n \div 256, W - 1), n % 256)

RECURSIVE FromDigits(_)
\* the model integer of a short digit string
FromDigits(d) == IF d = <<>> THEN 0 ELSE FromDigits(Front(d)) * 256 + Last(d)

RECURSIVE AddOne(_)
\* d + 1 modulo 256^Len(d)
AddOne(d) ==
    IF d = <<>> THEN <<>>
    ELSE IF Last(d) = 255 THEN Append(AddOne(Front(d)), 0)
    ELSE Append(Front(d), Last(d) + 1)

\* two's complement negation modulo 256^Len(d)
Negate(d) == AddOne([i \in 1..Len(d) |-> 255 - d[i]])

(***************************************************************************)
(* Values and their constructors.                                          *)
(***************************************************************************)
V(kind, b, n, chars, elems) ==
    [kind |-> kind, b |-> b, n |-> n, chars |-> chars, elems |-> elems]

Bool(b) == V("bool", b, 0, <<>>, <<>>)

\* an unsigned integer of kind k ("u8", "u16", "u32", "u64") or a float bit
\* pattern ("f32", "f64") from its digits
Unsigned(k, digits) == V(k, FALSE, 0, digits, <<>>)

\* a signed integer of kind k from its sign and the digits of its magnitude
Signed(k, neg, digits) == V(k, FALSE, neg, digits, <<>>)

Char(c) == V("char", FALSE, c, <<>>, <<>>)

Str(cps) == V("str", FALSE, 0, cps, <<>>)

Bytes(bs) == V("bytes", FALSE, 0, bs, <<>>)

Unit == V("unit", FALSE, 0, <<>>, <<>>)

None == V("option", FALSE, 0, <<>>, <<>>)

Some(v) == V("option", FALSE, 0, <<>>, <<v>>)

\* a composite of kind k with variant index i (0 when k is not a variant)
Composite(k, i, elems) == V(k, TRUE, i, <<>>, elems)

\* a sequence or map whose iterator reports no length
Unsized(k, elems) == V(k, FALSE, 0, <<>>, elems)

\* no value: the decoder was handed a slice that no encode call produced
NoValue == V("none", FALSE, 0, <<>>, <<>>)

(***************************************************************************)
(* serializer.rs                                                           *)
(***************************************************************************)
\* Result<Vec<u8>, Error> of the encoder
SerOk(bytes) == [tag |-> "Ok", err |-> "", bytes |-> bytes]

SerErr(e) == [tag |-> "Err", err |-> e, bytes |-> <<>>]

\* std::mem::transmute::<uN, [u8; N]>: the in-memory bytes of the integer, in
\* the byte order of the machine the build targets
transmute_to_bytes(digits) == IF endian = "little" THEN Reverse(digits) ELSE digits

\* `v as uN` for a signed v: the two's complement bit pattern
as_unsigned(v) == IF v.n = 1 THEN Negate(v.chars) ELSE v.chars

serialize_bool(v) == SerOk(<<IF v THEN 1 ELSE 0>>)

serialize_u8(v) == SerOk(<<v[1]>>)

serialize_u16(v) == SerOk(transmute_to_bytes(v))

serialize_u32(v) == SerOk(transmute_to_bytes(v))

serialize_u64(v) == SerOk(transmute_to_bytes(v))

serialize_i8(v) == serialize_u8(as_unsigned(v))

serialize_i16(v) == serialize_u16(as_unsigned(v))

serialize_i32(v) == serialize_u32(as_unsigned(v))

serialize_i64(v) == serialize_u64(as_unsigned(v))

\* v.to_bits().serialize(self); the float is held as its bit pattern
serialize_f32(v) == serialize_u32(v)

serialize_f64(v) == serialize_u64(v)

\* (v as u32).serialize(self)
serialize_char(v) == serialize_u32(ToDigits(v, 4))

serialize_bytes(v) == SerOk(v)

\* false.serialize(self)
serialize_none == serialize_bool(FALSE)

serialize_unit == SerOk(<<>>)

serialize_unit_struct == serialize_unit

\* variant_index.serialize(self)
serialize_unit_variant(variant_index) == serialize_u32(ToDigits(variant_index, 4))

\* len.serialize(..) for len: usize; serde serializes usize with serialize_u64
serialize_usize(len) == serialize_u64(ToDigits(len, 8))

\* the Ok value is the buffer of the Serializer returned to the caller
serialize_seq(known, len) == IF ~known THEN SerErr("UnsizedSeq") ELSE serialize_usize(len)

serialize_tuple(len) == SerOk(<<>>)

serialize_tuple_struct(len) == serialize_usize(len)

serialize_tuple_variant(variant_index, len) ==
    LET buf == serialize_u32(ToDigits(variant_index, 4))
    IN  SerOk(buf.bytes \o serialize_usize(len).bytes)

serialize_map(known, len) == IF ~known THEN SerErr("UnsizedMap") ELSE serialize_usize(len)

serialize_struct(len) == SerOk(<<>>)

serialize_struct_variant(variant_index, len) == serialize_u32(ToDigits(variant_index, 4))

\* str::as_bytes of one char: its UTF-8 encoding
utf8_char(c) ==
    IF c < 128 THEN <<c>>
    ELSE IF c < 2048 THEN <<192 + (c \div 64), 128 + (c % 64)>>
    ELSE IF c < 65536
         THEN <<224 + (c \div 4096), 128 + ((c \div 64) % 64), 128 + (c % 64)>>
    ELSE <<240 + (c \div 262144), 128 + ((c \div 4096) % 64),
           128 + ((c \div 64) % 64), 128 + (c % 64)>>

RECURSIVE as_bytes(_)
\* str::as_bytes: the UTF-8 bytes of the string with code points cps
as_bytes(cps) == IF cps = <<>> THEN <<>> ELSE utf8_char(cps[1]) \o as_bytes(Tail(cps))

\* the Vec<u8> value built from bytes (what [..].concat() yields), as serde
\* sees it: a sequence of known length whose elements are u8
VecU8(bytes) == Composite("seq", 0, [i \in 1..Len(bytes) |-> Unsigned("u8", <<bytes[i]>>)])

RECURSIVE serialize(_)
RECURSIVE serialize_elements(_, _)

\* Serializer::serialize_single_element applied to the open composite whose
\* state is r (Ok with its buffer, or the error that already ended the walk)
serialize_single_element(r, v) ==
    IF r.tag = "Err" THEN r
    ELSE LET e == serialize(v)
         IN  IF e.tag = "Err" THEN e ELSE SerOk(r.bytes \o e.bytes)

\* the walk of the value's Serialize impl over its elements or fields: one
\* serialize_element / serialize_field / serialize_key / serialize_value call
\* each, in order, then end()
serialize_elements(r, elems) ==
    IF elems = <<>> THEN r
    ELSE serialize_elements(serialize_single_element(r, elems[1]), Tail(elems))

\* [v.as_bytes(), &[EOT]].concat().serialize(self)
serialize_str(v) == serialize(VecU8(as_bytes(v) \o <<EOT>>))

serialize_some(v) ==
    LET output_ == serialize_bool(TRUE)
        inner == serialize(v)
    IN  IF inner.tag = "Err" THEN inner ELSE SerOk(output_.bytes \o inner.bytes)

serialize_newtype_struct(v) == serialize(v)

serialize_newtype_variant(variant_index, v) ==
    LET output_ == serialize_u32(ToDigits(variant_index, 4))
        inner == serialize(v)
    IN  IF inner.tag = "Err" THEN inner ELSE SerOk(output_.bytes \o inner.bytes)

\* value.serialize(Serializer::default()): the call the value's Serialize impl
\* makes for its kind
serialize(v) ==
    CASE v.kind = "bool" -> serialize_bool(v.b)
      [] v.kind = "u8" -> serialize_u8(v.chars)
      [] v.kind = "u16" -> serialize_u16(v.chars)
      [] v.kind = "u32" -> serialize_u32(v.chars)
      [] v.kind = "u64" -> serialize_u64(v.chars)
      [] v.kind = "i8" -> serialize_i8(v)
      [] v.kind = "i16" -> serialize_i16(v)
      [] v.kind = "i32" -> serialize_i32(v)
      [] v.kind = "i64" -> serialize_i64(v)
      [] v.kind = "f32" -> serialize_f32(v.chars)
      [] v.kind = "f64" -> serialize_f64(v.chars)
      [] v.kind = "char" -> serialize_char(v.n)
      [] v.kind = "str" -> serialize_str(v.chars)
      [] v.kind = "bytes" -> serialize_bytes(v.chars)
      [] v.kind = "option" ->
            IF v.elems = <<>> THEN serialize_none ELSE serialize_some(v.elems[1])
      [] v.kind = "unit" -> serialize_unit
      [] v.kind = "unit_struct" -> serialize_unit_struct
      [] v.kind = "unit_variant" -> serialize_unit_variant(v.n)
      [] v.kind = "newtype_struct" -> serialize_newtype_struct(v.elems[1])
      [] v.kind = "newtype_variant" -> serialize_newtype_variant(v.n, v.elems[1])
      [] v.kind = "seq" ->
            serialize_elements(serialize_seq(v.b, Len(v.elems)), v.elems)
      [] v.kind = "tuple" ->
            serialize_elements(serialize_tuple(Len(v.elems)), v.elems)
      [] v.kind = "tuple_struct" ->
            serialize_elements(serialize_tuple_struct(Len(v.elems)), v.elems)
      [] v.kind = "tuple_variant" ->
            serialize_elements(serialize_tuple_variant(v.n, Len(v.elems)), v.elems)
      [] v.kind = "map" ->
            serialize_elements(serialize_map(v.b, Len(v.elems) \div 2), v.elems)
      [] v.kind = "struct" ->
            serialize_elements(serialize_struct(Len(v.elems)), v.elems)
      [] v.kind = "struct_variant" ->
            serialize_elements(serialize_struct_variant(v.n, Len(v.elems)), v.elems)

\* Result<(), Error> of an append
Appended == [tag |-> "Ok", err |-> "", bytes |-> <<>>]

\* serialize_single_element that empties the composite's buffer when the
\* nested encode fails
serialize_single_element_mut_clears(buf, v) ==
    LET e == serialize(v)
    IN  IF e.tag = "Err" THEN [buffer |-> <<>>, ret |-> e]
        ELSE [buffer |-> buf \o e.bytes, ret |-> Appended]

\* Serializer::serialize_single_element on &mut self with self.buffer = buf:
\* the buffer afterwards and the value returned.  value.serialize(..)? runs
\* first and returns its error before extend_from_slice is reached
serialize_single_element_mut(buf, v) ==
    LET e == serialize(v)
    IN  IF e.tag = "Err" THEN [buffer |-> buf, ret |-> e]
        ELSE [buffer |-> buf \o e.bytes, ret |-> Appended]

\* SerializeSeq / SerializeTuple::serialize_element
serialize_element(buf, v) == serialize_single_element_mut(buf, v)

\* SerializeTupleStruct / TupleVariant / Struct / StructVariant::serialize_field
serialize_field(buf, v) == serialize_single_element_mut(buf, v)

\* SerializeMap::serialize_key
serialize_key(buf, v) == serialize_single_element_mut(buf, v)

\* SerializeMap::serialize_value
serialize_value(buf, v) == serialize_single_element_mut(buf, v)

\* end(): Ok(self.buffer)
end(buf) == SerOk(buf)

(***************************************************************************)
(* deserializer.rs                                                         *)
(***************************************************************************)
\* Result<V::Value, Error> of the decoder, or the panic that unwinds out of
\* the call (an out-of-range slice index, todo!())
DeOk(v) == [tag |-> "Ok", err |-> "", msg |-> "", value |-> v]

DeErr(e) == [tag |-> "Err", err |-> e, msg |-> "", value |-> NoValue]

\* Error::Custom(String), built by de::Error::custom / invalid_value /
\* invalid_length; msg names which of the messages it carries
Custom(msg) == [tag |-> "Err", err |-> "Custom", msg |-> msg, value |-> NoValue]

Panic == [tag |-> "Panic", err |-> "", msg |-> "", value |-> NoValue]

\* a shape request: the deserialize_* method the caller's type asks for, and
\* for an option the request of the inner type
Shape(kind) == [kind |-> kind, inner |-> <<>>]

OptionOf(s) == [kind |-> "option", inner |-> <<s>>]

SignedKinds == {"i8", "i16", "i32", "i64"}

\* transmute_copy with the bytes always read most significant first, whatever
\* the machine's byte order
transmute_copy_big_endian(Integer, bytes) ==
    IF Integer \in SignedKinds
    THEN IF bytes[1] >= 128 THEN Signed(Integer, 1, Negate(bytes))
         ELSE Signed(Integer, 0, bytes)
    ELSE Unsigned(Integer, bytes)

\* std::mem::transmute_copy::<[u8; SIZE], Integer>: the integer of type
\* Integer whose in-memory bytes are the array
transmute_copy(Integer, bytes) ==
    LET digits == IF endian = "little" THEN Reverse(bytes) ELSE bytes
    IN  IF Integer \in SignedKinds
        THEN IF digits[1] >= 128 THEN Signed(Integer, 1, Negate(digits))
             ELSE Signed(Integer, 0, digits)
        ELSE Unsigned(Integer, digits)

deserialize_integer(buf, Integer, SIZE) ==
    IF Len(buf) < SIZE THEN Panic                  \* self.buffer[SIZE..]
    ELSE IF SliceFrom(buf, SIZE) # <<>> THEN DeErr("WrongDeserializeType")
    ELSE DeOk(transmute_copy(Integer, SubSeq(buf, 1, SIZE)))

\* is b a UTF-8 continuation byte within lo..hi
Cont(bs, i, lo, hi) == i <= Len(bs) /\ bs[i] >= lo /\ bs[i] <= hi

\* the length of the well-formed UTF-8 sequence that starts bs, 0 when none
\* does (core::str::from_utf8 validation: no overlong forms, no surrogates,
\* nothing above U+10FFFF)
utf8_width(bs) ==
    LET f == bs[1]
    IN  IF f < 128 THEN 1
        ELSE IF f >= 194 /\ f <= 223
             THEN IF Cont(bs, 2, 128, 191) THEN 2 ELSE 0
        ELSE IF f >= 224 /\ f <= 239
             THEN IF /\ Cont(bs, 2, IF f = 224 THEN 160 ELSE 128,
                                    IF f = 237 THEN 159 ELSE 191)
                     /\ Cont(bs, 3, 128, 191)
                  THEN 3 ELSE 0
        ELSE IF f >= 240 /\ f <= 244
             THEN IF /\ Cont(bs, 2, IF f = 240 THEN 144 ELSE 128,
                                    IF f = 244 THEN 143 ELSE 191)
                     /\ Cont(bs, 3, 128, 191)
                     /\ Cont(bs, 4, 128, 191)
                  THEN 4 ELSE 0
        ELSE 0

\* the code point of one well-formed UTF-8 sequence
utf8_code_point(bs) ==
    IF Len(bs) = 1 THEN bs[1]
    ELSE IF Len(bs) = 2 THEN (bs[1] - 192) * 64 + (bs[2] - 128)
    ELSE IF Len(bs) = 3
         THEN (bs[1] - 224) * 4096 + (bs[2] - 128) * 64 + (bs[3] - 128)
    ELSE (bs[1] - 240) * 262144 + (bs[2] - 128) * 4096 + (bs[3] - 128) * 64
         + (bs[4] - 128)

RECURSIVE from_utf8(_)
\* std::str::from_utf8: the string (its code points) or the Utf8Error
from_utf8(bs) ==
    IF bs = <<>> THEN [ok |-> TRUE, chars |-> <<>>]
    ELSE LET w == utf8_width(bs)
         IN  IF w = 0 THEN [ok |-> FALSE, chars |-> <<>>]
             ELSE LET rest == from_utf8(SliceFrom(bs, w))
                  IN  IF ~rest.ok THEN rest
                      ELSE [ok |-> TRUE,
                            chars |-> <<utf8_code_point(SubSeq(bs, 1, w))>> \o rest.chars]

\* deserialize_str that hands the whole slice, sentinel included, to from_utf8
deserialize_str_keeps_sentinel(buf) ==
    IF buf = <<>> \/ buf[Len(buf)] # EOT THEN DeErr("EotNotFound")
    ELSE LET s == from_utf8(buf)
         IN  IF s.ok THEN DeOk(Str(s.chars)) ELSE Custom("invalid utf-8")

\* the inherent Deserializer::deserialize_str
deserialize_str(buf) ==
    IF buf = <<>> \/ buf[Len(buf)] # EOT THEN DeErr("EotNotFound")
    ELSE LET s == from_utf8(SubSeq(buf, 1, Len(buf) - 1))
         IN  IF s.ok THEN DeOk(Str(s.chars)) ELSE Custom("invalid utf-8")

deserialize_any(buf) == DeErr("DeserializeAny")

deserialize_bool(buf) ==
    LET r == deserialize_integer(buf, "u8", 1)
    IN  IF r.tag # "Ok" THEN r
        ELSE IF r.value.chars[1] = 0 THEN DeOk(Bool(FALSE))
        ELSE IF r.value.chars[1] = 1 THEN DeOk(Bool(TRUE))
        ELSE Custom("invalid value")

deserialize_i8(buf) == deserialize_integer(buf, "i8", 1)

deserialize_i16(buf) == deserialize_integer(buf, "i16", 2)

deserialize_i32(buf) == deserialize_integer(buf, "i32", 4)

deserialize_i64(buf) == deserialize_integer(buf, "i64", 8)

deserialize_u8(buf) == deserialize_integer(buf, "u8", 1)

deserialize_u16(buf) == deserialize_integer(buf, "u16", 2)

deserialize_u32(buf) == deserialize_integer(buf, "u32", 4)

deserialize_u64(buf) == deserialize_integer(buf, "u64", 8)

\* f32::from_bits of the decoded u32; the float is held as its bit pattern
deserialize_f32(buf) ==
    LET r == deserialize_integer(buf, "u32", 4)
    IN  IF r.tag # "Ok" THEN r ELSE DeOk(Unsigned("f32", r.value.chars))

deserialize_f64(buf) ==
    LET r == deserialize_integer(buf, "u64", 8)
    IN  IF r.tag # "Ok" THEN r ELSE DeOk(Unsigned("f64", r.value.chars))

\* char::from_u32 accepts 0..=0x10FFFF except the surrogates 0xD800..=0xDFFF
deserialize_char(buf) ==
    LET r == deserialize_integer(buf, "u32", 4)
    IN  IF r.tag # "Ok" THEN r
        ELSE LET d == r.value.chars
             IN  IF d[1] # 0 \/ d[2] > 16 \/ (d[2] = 0 /\ d[3] >= 216 /\ d[3] <= 223)
                 THEN Custom("invalid value")
                 ELSE DeOk(Char(FromDigits(d)))

\* the Deserializer trait's deserialize_str: visitor.visit_str(..)
deserialize_str_visit(buf) == deserialize_str(buf)

deserialize_string(buf) == deserialize_str(buf)

deserialize_bytes(buf) == DeOk(Bytes(buf))

deserialize_byte_buf(buf) == DeOk(Bytes(buf))

deserialize_unit(buf) == IF buf # <<>> THEN DeErr("WrongDeserializeType") ELSE DeOk(Unit)

deserialize_unit_struct(buf) ==
    LET r == deserialize_unit(buf)
    IN  IF r.tag # "Ok" THEN r ELSE DeOk(V("unit_struct", FALSE, 0, <<>>, <<>>))

\* todo!()
deserialize_newtype_struct(buf) == Panic

deserialize_seq(buf) == Panic

deserialize_tuple(buf) == Panic

deserialize_tuple_struct(buf) == Panic

deserialize_map(buf) == Panic

deserialize_struct(buf) == Panic

deserialize_enum(buf) == Panic

deserialize_identifier(buf) == Panic

deserialize_ignored_any(buf) == Panic

RECURSIVE deserialize(_, _)

\* visit_none / visit_some of the Option<T> visitor: None, or
\* T::deserialize(deserializer).map(Some)
deserialize_option(buf, inner) ==
    IF buf = <<>> THEN DeErr("EmptyBuffer")
    ELSE IF buf[1] = 0 THEN DeOk(None)
    ELSE IF buf[1] = 1
         THEN LET r == deserialize(inner, SliceFrom(buf, 1))
              IN  IF r.tag # "Ok" THEN r ELSE DeOk(Some(r.value))
    ELSE Custom("invalid value")

\* T::deserialize(Deserializer::new(buf)): the call the requested type's
\* Deserialize impl makes
deserialize(s, buf) ==
    CASE s.kind = "any" -> deserialize_any(buf)
      [] s.kind = "bool" -> deserialize_bool(buf)
      [] s.kind = "i8" -> deserialize_i8(buf)
      [] s.kind = "i16" -> deserialize_i16(buf)
      [] s.kind = "i32" -> deserialize_i32(buf)
      [] s.kind = "i64" -> deserialize_i64(buf)
      [] s.kind = "u8" -> deserialize_u8(buf)
      [] s.kind = "u16" -> deserialize_u16(buf)
      [] s.kind = "u32" -> deserialize_u32(buf)
      [] s.kind = "u64" -> deserialize_u64(buf)
      [] s.kind = "f32" -> deserialize_f32(buf)
      [] s.kind = "f64" -> deserialize_f64(buf)
      [] s.kind = "char" -> deserialize_char(buf)
      [] s.kind = "str" -> deserialize_str_visit(buf)
      [] s.kind = "string" -> deserialize_string(buf)
      [] s.kind = "bytes" -> deserialize_bytes(buf)
      [] s.kind = "byte_buf" -> deserialize_byte_buf(buf)
      [] s.kind = "option" -> deserialize_option(buf, s.inner[1])
      [] s.kind = "unit" -> deserialize_unit(buf)
      [] s.kind = "unit_struct" -> deserialize_unit_struct(buf)
      [] s.kind = "newtype_struct" -> deserialize_newtype_struct(buf)
      [] s.kind = "seq" -> deserialize_seq(buf)
      [] s.kind = "tuple" -> deserialize_tuple(buf)
      [] s.kind = "tuple_struct" -> deserialize_tuple_struct(buf)
      [] s.kind = "map" -> deserialize_map(buf)
      [] s.kind = "struct" -> deserialize_struct(buf)
      [] s.kind = "enum" -> deserialize_enum(buf)
      [] s.kind = "identifier" -> deserialize_identifier(buf)
      [] s.kind = "ignored_any" -> deserialize_ignored_any(buf)

(***************************************************************************)
(* The inputs the calls are made with.                                     *)
(***************************************************************************)
\* size_of of the fixed-width kinds
Width(k) ==
    CASE k \in {"bool", "u8", "i8"} -> 1
      [] k \in {"u16", "i16"} -> 2
      [] k \in {"u32", "i32", "f32", "char"} -> 4
      [] k \in {"u64", "i64", "f64"} -> 8

FixedWidthKinds ==
    {"bool", "u8", "i8", "u16", "i16", "u32", "i32", "f32", "char", "u64", "i64", "f64"}

DigitSample == {0, 1, 128, 255}

\* digit strings of width W: every sampled most and least significant digit,
\* the digits between them all 0 or all 255
Digits(W) ==
    {[i \in 1..W |-> IF i = 1 THEN hi ELSE IF i = W THEN lo ELSE mid] :
        hi \in DigitSample, lo \in DigitSample, mid \in {0, 255}}

UnsignedValues ==
    UNION {{Unsigned(k, d) : d \in Digits(Width(k))} :
            k \in {"u8", "u16", "u32", "u64", "f32", "f64"}}

\* sign and magnitude of a value of an iN: 0 ..= 2^(N-1)-1, or -2^(N-1) ..= -1
IsSigned(neg, d) ==
    IF neg = 0 THEN d[1] < 128
    ELSE /\ \E i \in 1..Len(d) : d[i] # 0
         /\ d[1] < 128 \/ d = [i \in 1..Len(d) |-> IF i = 1 THEN 128 ELSE 0]

SignedValues ==
    UNION {{Signed(k, neg, d) : neg \in {0, 1}, d \in Digits(Width(k))} : k \in SignedKinds}

\* Unicode scalar values at the edges of the UTF-8 widths and of the
\* surrogate gap
CharSample == {0, 4, 65, 127, 128, 233, 2047, 2048, 8364, 55295, 57344, 65535, 65536, 1114111}

StrCharSample == {4, 65, 192, 8192, 65536}

PrimitiveValues ==
    {Bool(TRUE), Bool(FALSE)} \cup UnsignedValues
    \cup {v \in SignedValues : IsSigned(v.n, v.chars)}
    \cup {Char(c) : c \in CharSample}

StrValues == {Str(cps) : cps \in SeqsUpTo(StrCharSample, MaxStrLen)}

\* one-byte elements of a sequence
ByteElems ==
    {Unsigned("u8", <<0>>), Unsigned("u8", <<7>>), Unsigned("u8", <<255>>),
     Bool(TRUE), Signed("i8", 1, <<1>>)}

\* fields of tuples, records and variants; the last one is a sequence whose
\* length is unknown, which serialize_seq refuses
Fields ==
    {Unsigned("u8", <<7>>), Unsigned("u16", <<1, 2>>), Bool(TRUE), Str(<<65>>),
     Unsized("seq", <<>>)}

VariantIndexes == {0, 1, 2}

CompositeValues ==
    {Composite("seq", 0, es) : es \in SeqsUpTo(ByteElems, MaxElems)}
    \cup {Composite(k, 0, fs) : k \in {"tuple", "tuple_struct", "struct"},
                                fs \in SeqsUpTo(Fields, MaxElems)}
    \cup {Composite(k, i, fs) : k \in {"tuple_variant", "struct_variant"},
                                i \in VariantIndexes, fs \in SeqsUpTo(Fields, MaxElems)}
    \cup {Composite("map", 0, fs) : fs \in {f \in SeqsUpTo(Fields, 2) : Len(f) % 2 = 0}}
    \cup {Unsized("seq", <<Bool(TRUE)>>), Unsized("map", <<>>)}

OtherValues ==
    {Unit, V("unit_struct", FALSE, 0, <<>>, <<>>), None, Some(None),
     Bytes(<<>>), Bytes(<<1, 4, 255>>)}
    \cup {Some(v) : v \in {Unsigned("u8", <<7>>), Bool(FALSE), Str(<<65>>),
                           Some(Unsigned("u8", <<7>>)), Unsized("seq", <<>>)}}
    \cup {Composite("unit_variant", i, <<>>) : i \in VariantIndexes}
    \cup {Composite(k, i, <<f>>) : k \in {"newtype_struct", "newtype_variant"},
                                   i \in {0, 1}, f \in Fields}

Values == PrimitiveValues \cup StrValues \cup CompositeValues \cup OtherValues

BaseShapes ==
    {Shape(k) : k \in FixedWidthKinds \cup
        {"any", "str", "string", "bytes", "byte_buf", "unit", "unit_struct",
         "newtype_struct", "seq", "tuple", "tuple_struct", "map", "struct", "enum",
         "identifier", "ignored_any"}}

\* the inner requests of the optional values asked for
OptionInner ==
    {Shape(k) : k \in {"u8", "bool", "u16", "str", "unit", "bytes", "seq", "any"}}
    \cup {OptionOf(Shape("u8"))}

Shapes == BaseShapes \cup {OptionOf(s) : s \in OptionInner}

\* lead byte, k fill bytes, last byte
Pattern(lead, fill, k, last) ==
    [i \in 1..(k + 2) |-> IF i = 1 THEN lead ELSE IF i = k + 2 THEN last ELSE fill]

Slices ==
    SeqsUpTo(ByteSample, MaxSliceLen)
    \cup {Pattern(lead, fill, k, last) :
            lead \in ByteSample, fill \in {0, 128}, k \in 0..(MaxPatternLen - 2),
            last \in ByteSample}

RECURSIVE ShapesOf(_)
\* the requests a caller makes to get a value of the type of v back
ShapesOf(v) ==
    CASE v.kind \in FixedWidthKinds -> {Shape(v.kind)}
      [] v.kind = "str" -> {Shape("str"), Shape("string")}
      [] v.kind = "bytes" -> {Shape("bytes"), Shape("byte_buf")}
      [] v.kind = "option" ->
            IF v.elems = <<>> THEN {OptionOf(Shape("u8"))}
            ELSE {OptionOf(s) : s \in ShapesOf(v.elems[1])}
      [] v.kind \in {"unit_variant", "newtype_variant", "tuple_variant", "struct_variant"} ->
            {Shape("enum")}
      [] OTHER -> {Shape(v.kind)}

(***************************************************************************)
(* The caller: one encode or decode call at a time, nothing kept between   *)
(* calls.                                                                  *)
(***************************************************************************)
NoShape == Shape("none")

NoResult == [tag |-> "None", err |-> "", msg |-> "", value |-> NoValue]

NoOutput == [tag |-> "None", err |-> "", bytes |-> <<>>]

\* no append made yet to the open encoder
NoAppend == [count |-> 0, before |-> <<>>, elem |-> NoValue, ret |-> NoOutput]

CompositeKinds ==
    {"seq", "tuple", "tuple_struct", "tuple_variant", "map", "struct", "struct_variant"}

\* the elements appended: the fields above, a map of unknown length, and a
\* tuple whose first field encodes and whose second does not
AppendElems ==
    Fields \cup {Unsized("map", <<>>),
                 Composite("tuple", 0, <<Unsigned("u8", <<7>>), Unsized("seq", <<>>)>>)}

Init ==
    /\ EOT \in EOTCandidates
    /\ endian \in {"little", "big"}
    /\ pc = "idle"
    /\ value = NoValue
    /\ shape = NoShape
    /\ output = NoOutput
    /\ buffer = <<>>
    /\ result = NoResult
    /\ composite = "none"
    /\ ser = <<>>
    /\ appended = NoAppend

\* value.serialize(Serializer::default())
Serialize(v) ==
    /\ pc = "idle"
    /\ pc' = "encoded"
    /\ value' = v
    /\ output' = serialize(v)
    /\ UNCHANGED <<EOT, endian, shape, buffer, result, cvars>>

\* T::deserialize(Deserializer::new(&encoded)) for the type T of the value
Deserialize(s) ==
    /\ pc = "encoded"
    /\ output.tag = "Ok"
    /\ s \in ShapesOf(value)
    /\ pc' = "decoded"
    /\ shape' = s
    /\ buffer' = output.bytes
    /\ result' = deserialize(s, output.bytes)
    /\ UNCHANGED <<EOT, endian, value, output, cvars>>

\* T::deserialize(Deserializer::new(b)) on a slice from anywhere
DeserializeSlice(s, b) ==
    /\ pc = "idle"
    /\ pc' = "decoded"
    /\ shape' = s
    /\ buffer' = b
    /\ result' = deserialize(s, b)
    /\ UNCHANGED <<EOT, endian, value, output, cvars>>

\* the call is over; the codec keeps nothing
Return ==
    /\ pc \in {"encoded", "decoded", "open", "ended"}
    /\ pc' = "idle"
    /\ value' = NoValue
    /\ shape' = NoShape
    /\ output' = NoOutput
    /\ buffer' = <<>>
    /\ result' = NoResult
    /\ composite' = "none"
    /\ ser' = <<>>
    /\ appended' = NoAppend
    /\ UNCHANGED <<EOT, endian>>

\* the first call of a composite value's Serialize impl: serialize_seq,
\* serialize_tuple, ..., which returns the open encoder or an error
Open(k, i, known, len) ==
    /\ pc = "idle"
    /\ LET r == CASE k = "seq" -> serialize_seq(known, len)
                   [] k = "tuple" -> serialize_tuple(len)
                   [] k = "tuple_struct" -> serialize_tuple_struct(len)
                   [] k = "tuple_variant" -> serialize_tuple_variant(i, len)
                   [] k = "map" -> serialize_map(known, len)
                   [] k = "struct" -> serialize_struct(len)
                   [] k = "struct_variant" -> serialize_struct_variant(i, len)
       IN  IF r.tag = "Err"
           THEN pc' = "ended" /\ output' = r /\ UNCHANGED cvars
           ELSE /\ pc' = "open"
                /\ composite' = k
                /\ ser' = r.bytes
                /\ appended' = NoAppend
                /\ UNCHANGED output
    /\ UNCHANGED <<EOT, endian, value, shape, buffer, result>>

\* one serialize_element / serialize_field / serialize_key / serialize_value
\* call on the open encoder
AppendElement(v) ==
    /\ pc = "open"
    /\ appended.count < MaxAppends
    /\ LET r == CASE composite \in {"seq", "tuple"} -> serialize_element(ser, v)
                   [] composite = "map" ->
                        IF appended.count % 2 = 0 THEN serialize_key(ser, v)
                        ELSE serialize_value(ser, v)
                   [] OTHER -> serialize_field(ser, v)
       IN  /\ ser' = r.buffer
           /\ appended' = [count |-> appended.count + 1, before |-> ser, elem |-> v, ret |-> r.ret]
    /\ UNCHANGED <<EOT, endian, pc, value, shape, output, buffer, result, composite>>

\* end() on the open encoder
End ==
    /\ pc = "open"
    /\ pc' = "ended"
    /\ output' = end(ser)
    /\ UNCHANGED <<EOT, endian, value, shape, buffer, result, cvars>>

Next ==
    \/ pc = "idle" /\ \E v \in Values : Serialize(v)
    \/ pc = "encoded" /\ \E s \in ShapesOf(value) : Deserialize(s)
    \/ pc = "idle" /\ \E s \in Shapes, b \in Slices : DeserializeSlice(s, b)
    \/ Return
    \/ pc = "idle" /\ \E k \in CompositeKinds, known \in BOOLEAN, len \in {0, 2} :
                        Open(k, 1, known, len)
    \/ pc = "open" /\ \E v \in AppendElems : AppendElement(v)
    \/ End

Spec == Init /\ [][Next]_vars

(***************************************************************************)
(* Vocabulary of the properties.                                           *)
(***************************************************************************)
\* the value v was encoded and the buffer decoded with the request of its type
RoundTripped(v) ==
    /\ pc = "decoded"
    /\ value = v
    /\ v # NoValue
    /\ output.tag = "Ok"
    /\ buffer = output.bytes
    /\ shape \in ShapesOf(v)

\* a decode call on the slice just returned (or unwound)
Decoded(kinds) == pc = "decoded" /\ shape.kind \in kinds

IsScalarValue(c) == c >= 0 /\ c <= 1114111 /\ ~(c >= 55296 /\ c <= 57343)

\* the payload bits of a chunk of 1 to 4 bytes read as one UTF-8 sequence,
\* with no check at all
PayloadBits(ch) ==
    IF Len(ch) = 1 THEN ch[1]
    ELSE IF Len(ch) = 2 THEN (ch[1] % 32) * 64 + (ch[2] % 64)
    ELSE IF Len(ch) = 3 THEN (ch[1] % 16) * 4096 + (ch[2] % 64) * 64 + (ch[3] % 64)
    ELSE (ch[1] % 8) * 262144 + (ch[2] % 64) * 4096 + (ch[3] % 64) * 64 + (ch[4] % 64)

\* ch is the UTF-8 encoding of a Unicode scalar value
IsEncodedScalar(ch) ==
    LET c == PayloadBits(ch) IN IsScalarValue(c) /\ utf8_char(c) = ch

RECURSIVE IsUtf8(_)
\* bs is well-formed UTF-8: a concatenation of encodings of scalar values
IsUtf8(bs) ==
    \/ bs = <<>>
    \/ \E w \in 1..(IF Len(bs) < 4 THEN Len(bs) ELSE 4) :
          IsEncodedScalar(SubSeq(bs, 1, w)) /\ IsUtf8(SliceFrom(bs, w))

RECURSIVE ConcatEncodings(_)
\* the encodings of the fields, one after the other
ConcatEncodings(elems) ==
    IF elems = <<>> THEN <<>>
    ELSE serialize(elems[1]).bytes \o ConcatEncodings(Tail(elems))

AllEncode(elems) == \A i \in 1..Len(elems) : serialize(elems[i]).tag = "Ok"

\* n as an 8-byte machine word, i as a 4-byte integer, in memory order
WordBytes(n) == IF endian = "little" THEN Reverse(ToDigits(n, 8)) ELSE ToDigits(n, 8)

IndexBytes(i) == IF endian = "little" THEN Reverse(ToDigits(i, 4)) ELSE ToDigits(i, 4)

(***************************************************************************)
(* The properties.                                                         *)
(***************************************************************************)
\* C1: a value of a primitive kind (bool, i8..i64, u8..u64, f32/f64 as bit
\* pattern, char), encoded and decoded with the same kind requested, comes
\* back: the decode succeeds and returns the value.
C1_RoundTripPrimitives ==
    (RoundTripped(value) /\ value.kind \in FixedWidthKinds) => result = DeOk(value)

\* C1 witness: a negative 64-bit integer with distinct bytes went round.
C1_Witness ==
    /\ RoundTripped(value)
    /\ value = Signed("i64", 1, <<1, 0, 0, 0, 0, 0, 0, 128>>)
    /\ result.tag = "Ok"

\* C2: a string whose UTF-8 bytes do not contain the sentinel (the empty
\* string too), encoded and decoded with a string requested, comes back
\* exactly.
C2_RoundTripStrings ==
    (/\ RoundTripped(value)
     /\ value.kind = "str"
     /\ EOT \notin Range(as_bytes(value.chars)))
    => result = DeOk(value)

\* C3: the encoding of a string is exactly its UTF-8 bytes followed by one
\* sentinel byte, len(utf8(s)) + 1 bytes, with no length prefix.
C3_StringLayout ==
    (pc = "encoded" /\ value.kind = "str")
    => /\ output = SerOk(as_bytes(value.chars) \o <<EOT>>)
       /\ Len(output.bytes) = Len(as_bytes(value.chars)) + 1

\* C4: a sequence of n one-byte elements encodes as the machine word n
\* followed by the n element bytes in order, and decoding that buffer with a
\* sequence requested returns the n elements in order.
C4_SequenceRoundTrip ==
    (value.kind = "seq" /\ value.b /\ Range(value.elems) \subseteq ByteElems)
    => /\ pc \in {"encoded", "decoded"}
          => output = SerOk(WordBytes(Len(value.elems)) \o ConcatEncodings(value.elems))
       /\ RoundTripped(value) => result = DeOk(value)

\* C5: decoding a fixed-width kind of width W from a slice whose length is
\* not W (longer, shorter or empty) returns the shape-mismatch error and
\* never aborts.
C5_FixedWidthLengthCheck ==
    (Decoded(FixedWidthKinds) /\ Len(buffer) # Width(shape.kind))
    => result = DeErr("WrongDeserializeType")

\* C6: decoding an optional value from b: empty b gives the empty-input
\* error; b[0] = 0 gives absent whatever follows; b[0] = 1 gives present with
\* the inner value decoded from b[1..], or that inner decode's error; any
\* other b[0] gives an invalid-value error.
C6_OptionDecoding ==
    Decoded({"option"})
    => IF buffer = <<>> THEN result = DeErr("EmptyBuffer")
       ELSE IF buffer[1] = 0 THEN result = DeOk(None)
       ELSE IF buffer[1] = 1
            THEN LET r == deserialize(shape.inner[1], SliceFrom(buffer, 1))
                 IN  \/ r.tag = "Ok" /\ result = DeOk(Some(r.value))
                     \/ r.tag = "Err" /\ result = r
       ELSE result = Custom("invalid value")

\* C7: decoding a string from b: when b is empty or does not end with the
\* sentinel the result is the terminator-missing error; otherwise, when the
\* bytes before the last one are not well-formed UTF-8, the result is a
\* malformed-text error, which is neither terminator-missing nor
\* shape-mismatch; otherwise the result is the string whose UTF-8 bytes are
\* exactly the bytes before the last one.
C7_StringDecodeOutcomes ==
    Decoded({"str", "string"})
    => IF buffer = <<>> \/ Last(buffer) # EOT THEN result = DeErr("EotNotFound")
       ELSE IF ~IsUtf8(Front(buffer))
            THEN /\ result.tag = "Err"
                 /\ result.err \notin {"EotNotFound", "WrongDeserializeType"}
                 /\ result = Custom("invalid utf-8")
       ELSE /\ result.tag = "Ok"
            /\ result.value.kind = "str"
            /\ \A i \in 1..Len(result.value.chars) : IsScalarValue(result.value.chars[i])
            /\ as_bytes(result.value.chars) = Front(buffer)

\* C7 witness: a slice holding a 2-byte UTF-8 sequence and the sentinel was
\* decoded to a one-character string.
C7_Witness ==
    /\ Decoded({"str", "string"})
    /\ buffer = <<195, 128, EOT>>
    /\ result = DeOk(Str(<<192>>))

\* C8: the encoding of a tuple and of a tuple struct is exactly the
\* concatenation of the field encodings in order, with no length prefix.
C8_TupleNoLengthPrefix ==
    (/\ pc = "encoded"
     /\ value.kind \in {"tuple", "tuple_struct"}
     /\ AllEncode(value.elems))
    => output = SerOk(ConcatEncodings(value.elems))

\* C9: the encoding of a tuple variant and of a struct variant with index i
\* and k fields is the 4-byte i, the machine word k, then the concatenation
\* of the k field encodings, the same layout for both.
C9_VariantPayloadFraming ==
    (/\ pc = "encoded"
     /\ value.kind \in {"tuple_variant", "struct_variant"}
     /\ AllEncode(value.elems))
    => output = SerOk(IndexBytes(value.n) \o WordBytes(Len(value.elems))
                      \o ConcatEncodings(value.elems))

\* C10: a decode request that names no layout (anything, an identifier,
\* ignore anything) returns the unsupported-request error for every slice,
\* without a value and without aborting.
C10_ShapeFreeRequestsFail ==
    Decoded({"any", "identifier", "ignored_any"}) => result = DeErr("DeserializeAny")

\* C11: an append to an open composite encoder (sequence, tuple, map,
\* record, variant) whose nested encode fails returns that error and leaves
\* the accumulated buffer exactly as it was before the append; an append
\* that succeeds extends the buffer by exactly the element's encoding, at the
\* end.
C11_NoPartialOutput ==
    (pc = "open" /\ appended.count > 0)
    => LET e == serialize(appended.elem)
       IN  IF e.tag = "Err"
           THEN appended.ret = e /\ ser = appended.before
           ELSE /\ appended.ret.tag = "Ok"
                /\ Len(ser) = Len(appended.before) + Len(e.bytes)
                /\ SubSeq(ser, 1, Len(appended.before)) = appended.before
                /\ SliceFrom(ser, Len(appended.before)) = e.bytes

\* C11 witness: after a successful append, the append of a tuple whose second
\* field is a sequence of unknown length failed and the buffer of the open
\* tuple variant still holds the index, the count and the first field.
C11_Witness ==
    /\ pc = "open"
    /\ composite = "tuple_variant"
    /\ appended.count = 2
    /\ appended.elem = Composite("tuple", 0, <<Unsigned("u8", <<7>>), Unsized("seq", <<>>)>>)
    /\ appended.ret = SerErr("UnsizedSeq")
    /\ Len(ser) = 13
    /\ ser[13] = 7

====
